---- MODULE Spec2Model ----
(***************************************************************************)
(* process_data.py: pairing of capture files, decoding of the videos and   *)
(* writing of the frames and the calibration record, as a state machine.   *)
(*                                                                         *)
(* File names and paths of the input directory are sequences of            *)
(* one-character strings, so that Path.stem and str.replace are computed   *)
(* character by character. Times are integers in ticks of half a           *)
(* millisecond. Images are sequences of rows of pixels <<c1, c2, c3>>.     *)
(***************************************************************************)
EXTENDS Integers, Sequences, FiniteSets, TLC

VARIABLES
    dir,               \* os.listdir(root_dir): the set of entry names
    video_ext,         \* get_paired_data's video_ext
    data_pairs,        \* main: data_pairs / the value get_paired_data returned
    pc,                \* position of the program
    k,                 \* position of the pair loop's enumerate
    idx,               \* the variable idx of main (both loops bind it)
    calibration_json,  \* main: calibration_json / load_video's calibration_data
    container,         \* the opened video: its frames, in decode order
    video_rgb,         \* main: video_rgb / the value load_video returned
    video_outdir,      \* main: video_outdir
    before,            \* the folders under outdir when the run began
    fs,                \* the folders under outdir and their files
    created,           \* the folders this run's os.makedirs calls have made
    log,               \* what this run has done so far, in order
    err,               \* the exception that ended the run
    fpos,              \* position of the frame loop's enumerate
    frame,             \* a decoded frame (an image)
    written            \* the image handed to cv.imwrite for that frame

vars == <<dir, video_ext, data_pairs, pc, k, idx, calibration_json, container,
          video_rgb, video_outdir, before, fs, created, log, err, fpos, frame,
          written>>

----------------------------------------------------------------------------
(* Bounds of the model *)

MaxPieces == 2      \* a stem is made of at most this many pieces
MaxEntries == 2     \* entries of a directory given to get_paired_data alone
MaxFrames == 2      \* frames of a video, frame entries of a calibration record
MaxDim == 2         \* height and width of a frame given to the transform alone

Tolerance == 2      \* line 33: 1e-3 seconds, in ticks of half a millisecond
SessionStart == 10  \* the sessionStartTime of the calibration records drawn
FrameStep == 3      \* ticks between two frames of the videos drawn

\* the largest number a calibration record drawn here holds
MaxNum == SessionStart + FrameStep * (MaxFrames + 1) + Tolerance + 1

----------------------------------------------------------------------------
(* Strings *)

Marker == <<"_", "c", "a", "l", "i", "b", "r", "a", "t", "i", "o", "n">>

ExtJson == <<"j", "s", "o", "n">>
ExtMov == <<"m", "o", "v">>
ExtMp4 == <<"m", "p", "4">>
Dot == <<".">>

StartsWith(s, p) ==
    /\ Len(p) <= Len(s)
    /\ SubSeq(s, 1, Len(p)) = p

EndsWith(s, p) ==
    /\ Len(p) <= Len(s)
    /\ SubSeq(s, Len(s) - Len(p) + 1, Len(s)) = p

Drop(s, n) == SubSeq(s, n + 1, Len(s))

\* str.rfind("."): the last position of a dot, 0 when there is none
LastDot(s) ==
    LET at == {i \in 1..Len(s) : s[i] = "."}
    IN  IF at = {} THEN 0 ELSE CHOOSE i \in at : \A j \in at : j <= i

\* pathlib's stem of a final path component: the name without its last
\* suffix; a leading dot or a trailing dot begins no suffix
Stem(name) ==
    LET p == LastDot(name)
    IN  IF 1 < p /\ p < Len(name) THEN SubSeq(name, 1, p - 1) ELSE name

\* s.replace(old, ""): every non-overlapping occurrence, left to right
RECURSIVE Remove(_, _)
Remove(s, old) ==
    IF s = <<>> THEN <<>>
    ELSE IF StartsWith(s, old) THEN Remove(Drop(s, Len(old)), old)
    ELSE <<s[1]>> \o Remove(Drop(s, 1), old)

\* os.path.join(root_dir, name)
Join(root, name) == root \o <<"/">> \o name

----------------------------------------------------------------------------
(* get_paired_data *)

\* lines 42-44: the name get_paired_data derives from a directory entry
BaseName(entry) == Remove(Stem(entry), Marker)

\* lines 40-45: the set names
Names(listing) == {BaseName(fp) : fp \in listing}

\* line 48: the pair built for a name
PairOf(root, name, ext) ==
    <<Join(root, name \o Dot \o ExtJson), Join(root, name \o Dot \o ext)>>

\* the orders in which a set can be iterated
Orders(S) ==
    {s \in [1..Cardinality(S) -> S] : \A i, j \in 1..Cardinality(S) : s[i] = s[j] => i = j}

\* line 48: the lists get_paired_data can return, one per iteration order of names
get_paired_data(root, listing, ext) ==
    {[i \in 1..Len(o) |-> PairOf(root, o[i], ext)] : o \in Orders(Names(listing))}

----------------------------------------------------------------------------
(* Images: cv.cvtColor and cv.rotate *)

Height(img) == Len(img)
Width(img) == Len(img[1])

\* line 70: cv.COLOR_RGB2BGR exchanges the first and the third channel
cvtColor_RGB2BGR(img) ==
    [i \in 1..Height(img) |->
        [j \in 1..Width(img) |-> <<img[i][j][3], img[i][j][2], img[i][j][1]>>]]

RotateCounterClockwise(img) ==
    [i \in 1..Width(img) |->
        [j \in 1..Height(img) |-> img[j][Width(img) + 1 - i]]]

\* line 71: cv.ROTATE_90_CLOCKWISE; the result has Width(img) rows
rotate_90_CLOCKWISE(img) ==
    [i \in 1..Width(img) |->
        [j \in 1..Height(img) |-> img[Height(img) + 1 - j][i]]]

\* lines 70-71: the image handed to cv.imwrite for a decoded frame
Transform(img) == rotate_90_CLOCKWISE(cvtColor_RGB2BGR(img))

\* the reverse: rotation by 90 degrees counter-clockwise, then the channel swap
Untransform(img) == cvtColor_RGB2BGR(RotateCounterClockwise(img))

----------------------------------------------------------------------------
(* JSON: json.dump and json.load on a calibration record. A text is a    *)
(* sequence of tokens; a number is written in decimal.                    *)

KeyStart == "\"sessionStartTime\""
KeyFrames == "\"frames\""
KeyTimestamp == "\"timestamp\""

\* json.dump of one frame entry
DumpEntry(e) == <<"{", KeyTimestamp, ":", ToString(e.timestamp), "}">>

RECURSIVE DumpEntries(_)
DumpEntries(es) ==
    IF es = <<>> THEN <<>>
    ELSE IF Len(es) = 1 THEN DumpEntry(es[1])
    ELSE DumpEntry(es[1]) \o <<",">> \o DumpEntries(Tail(es))

\* line 65: json.dump(calibration_json), keys in the order they were loaded
Dump(rec) ==
    <<"{", KeyStart, ":", ToString(rec.sessionStartTime), ",", KeyFrames, ":", "[">>
        \o DumpEntries(rec.frames) \o <<"]", "}">>

IsNum(tok) == \E n \in 0..MaxNum : ToString(n) = tok
Num(tok) == CHOOSE n \in 0..MaxNum : ToString(n) = tok

IsEntry(toks) ==
    /\ Len(toks) = 5
    /\ toks[1] = "{" /\ toks[2] = KeyTimestamp /\ toks[3] = ":"
    /\ IsNum(toks[4]) /\ toks[5] = "}"

\* the entries of a JSON array body: entry ("," entry)*, or nothing
RECURSIVE IsEntries(_)
IsEntries(toks) ==
    \/ toks = <<>>
    \/ IsEntry(toks)
    \/ /\ Len(toks) > 6
       /\ IsEntry(SubSeq(toks, 1, 5))
       /\ toks[6] = ","
       /\ IsEntries(Drop(toks, 6))

RECURSIVE ParseEntries(_)
ParseEntries(toks) ==
    IF toks = <<>> THEN <<>>
    ELSE <<[timestamp |-> Num(toks[4])]>> \o ParseEntries(Drop(toks, 6))

WellFormed(text) ==
    /\ Len(text) >= 10
    /\ SubSeq(text, 1, 3) = <<"{", KeyStart, ":">>
    /\ IsNum(text[4])
    /\ SubSeq(text, 5, 8) = <<",", KeyFrames, ":", "[">>
    /\ SubSeq(text, Len(text) - 1, Len(text)) = <<"]", "}">>
    /\ IsEntries(SubSeq(text, 9, Len(text) - 2))

\* lines 11-14: json.load; <<>> stands for the JSONDecodeError
load_json(text) ==
    IF WellFormed(text)
    THEN <<[sessionStartTime |-> Num(text[4]),
            frames |-> ParseEntries(SubSeq(text, 9, Len(text) - 2))]>>
    ELSE <<>>

----------------------------------------------------------------------------
(* load_video *)

Abs(x) == IF x < 0 THEN -x ELSE x

CheckFrameSkipped(calibration_data, i, fr) == "ok"

CheckFrameDefined(calibration_data, i, fr) ==
    IF i >= Len(calibration_data.frames) THEN "IndexError"
    ELSE IF ~(Abs((fr.time + calibration_data.sessionStartTime)
                    - calibration_data.frames[i + 1].timestamp) < Tolerance)
         THEN "AssertionError"
    ELSE "ok"

\* lines 32-35: the checks on the frame at index i (from 0); the name
\* timestamps of line 34 is bound nowhere, so a frame that passes line 33
\* ends on the NameError
CheckFrame(calibration_data, i, fr) ==
    IF i >= Len(calibration_data.frames) THEN "IndexError"
    ELSE IF ~(Abs((fr.time + calibration_data.sessionStartTime)
                    - calibration_data.frames[i + 1].timestamp) < Tolerance)
         THEN "AssertionError"
    ELSE "NameError"

\* lines 21-35: the decode loop from index i on; calibration_data is <<>>
\* for None and <<record>> otherwise
RECURSIVE Decode(_, _, _, _)
Decode(frames, i, rgb, calibration_data) ==
    IF i >= Len(frames) THEN [status |-> "ok", rgb |-> rgb, at |-> i]
    ELSE LET fr == frames[i + 1]
             got == Append(rgb, fr.img)
             chk == IF calibration_data = <<>> THEN "ok"
                    ELSE CheckFrame(calibration_data[1], i, fr)
         IN  IF chk = "ok" THEN Decode(frames, i + 1, got, calibration_data)
             ELSE [status |-> chk, rgb |-> got, at |-> i]

load_video_from_one(frames, calibration_data) == Decode(frames, 1, <<>>, calibration_data)

\* lines 16-37: load_video on an opened container; status "ok" means that
\* rgb was returned, any other status is the exception raised at frame at
load_video(frames, calibration_data) == Decode(frames, 0, <<>>, calibration_data)

----------------------------------------------------------------------------
(* The inputs drawn *)

\* the root_dir literal of line 52, as one path prefix
RootDir == <<"/Users/elizabethterveen/Desktop/lpwm.ExInt-Capture-2 2026-02-19 10:17.24.843.xcappdata/AppData/Documents">>

Pieces == {<<"a">>, Marker}

RECURSIVE StemsOf(_)
StemsOf(n) ==
    IF n = 0 THEN {<<>>} ELSE {p \o s : p \in Pieces, s \in StemsOf(n - 1)}

Stems == UNION {StemsOf(n) : n \in 1..MaxPieces}

Suffixes == {<<>>, Dot \o ExtJson, Dot \o ExtMov, Dot \o ExtMp4}

Entries == {s \o x : s \in Stems, x \in Suffixes}

RECURSIVE ListingsOf(_)
ListingsOf(n) ==
    IF n = 0 THEN {{}}
    ELSE LET less == ListingsOf(n - 1)
         IN  less \cup {l \cup {e} : l \in less, e \in Entries}

\* the directories given to get_paired_data alone
Listings == ListingsOf(MaxEntries)

\* the directories main is run on: the captures a and b
MainEntries ==
    {<<"a">> \o Dot \o ExtJson, <<"a">> \o Dot \o ExtMov,
     <<"b">> \o Marker \o Dot \o ExtJson, <<"b">> \o Dot \o ExtJson,
     <<"b">> \o Dot \o ExtMov}

\* the i-th frame (from 0) of the videos main decodes: 1 row, 2 pixels
ImgAt(i) == << << <<i, 100, 200>>, <<0, i, 255>> >> >>
FrameAt(i) == [time |-> FrameStep * i, img |-> ImgAt(i)]
VideoOf(n) == [i \in 1..n |-> FrameAt(i - 1)]
MainVideos == {VideoOf(n) : n \in 0..MaxFrames}

\* a record of n frame entries, each d ticks off the frame's time
RecordOf(n, d) ==
    [sessionStartTime |-> SessionStart,
     frames |-> [i \in 1..n |-> [timestamp |-> SessionStart + FrameStep * (i - 1) + d]]]
MainRecords == {RecordOf(n, d) : n \in 0..MaxFrames, d \in {0, Tolerance + 1}}

\* the texts of the calibration files: dumps of records, and a truncated one
Truncated(text) == SubSeq(text, 1, Len(text) - 1)
MainTexts == {Dump(r) : r \in MainRecords} \cup {Truncated(Dump(RecordOf(0, 0)))}

\* sequences over S of length at most n
RECURSIVE SeqsUpTo(_, _)
SeqsUpTo(S, n) ==
    IF n = 0 THEN {<<>>}
    ELSE LET less == SeqsUpTo(S, n - 1)
         IN  less \cup {Append(s, x) : s \in less, x \in S}

\* the videos and records given to load_video alone
LoneFrames == {[time |-> t, img |-> ImgAt(0)] : t \in {0, 1, FrameStep}}
LoneVideos == SeqsUpTo(LoneFrames, MaxFrames)
LoneRecords ==
    {[sessionStartTime |-> SessionStart, frames |-> f] :
        f \in SeqsUpTo({[timestamp |-> SessionStart + d] : d \in {0, Tolerance}}, MaxFrames)}

\* the frames given to the transform alone
Pixels == {<<255, 128, 0>>, <<10, 20, 30>>}
ImagesOf(h, w) == [1..h -> [1..w -> Pixels]]
Images == UNION {ImagesOf(h, w) : h \in 1..MaxDim, w \in 1..MaxDim}

\* what an earlier run of the same minute left under outdir: nothing, or
\* folders holding a calibration.json and m frames
NoFiles == [f \in {} |-> {}]
\* line 60: f'video_{idx}'
FolderName(i) == "video_" \o ToString(i)
FrameNameFromOne(i) == ToString(i + 1) \o ".png"
\* line 69: f"{idx}.png"
FrameName(i) == ToString(i) \o ".png"
JsonFile(text) == [type |-> "json", data |-> text]
PngFile(img) == [type |-> "png", data |-> img]
StaleText == Dump([sessionStartTime |-> 0, frames |-> <<>>])
StaleImage == << << <<9, 9, 9>> >> >>
StaleFolder(m) ==
    [f \in {"calibration.json"} \cup {FrameName(i) : i \in 0..(m - 1)} |->
        IF f = "calibration.json" THEN JsonFile(StaleText) ELSE PngFile(StaleImage)]
EarlierRun(m) == [d \in {FolderName(i) : i \in 0..1} |-> StaleFolder(m)]
EarlierRuns == {NoFiles} \cup {EarlierRun(m) : m \in 0..(MaxFrames + 1)}

----------------------------------------------------------------------------
(* The state after construction: main is about to run, or one of the      *)
(* functions of the module is about to be called on its own                *)

InitMain ==
    /\ pc = "main"
    /\ dir \in SUBSET MainEntries
    /\ before \in EarlierRuns
    /\ fs = before
    /\ video_ext = ExtMov /\ data_pairs = <<>>
    /\ k = 0 /\ idx = 0 /\ fpos = 0
    /\ calibration_json = <<>> /\ container = <<>> /\ video_rgb = <<>>
    /\ video_outdir = "" /\ created = {} /\ log = <<>>
    /\ err = "" /\ frame = <<>> /\ written = <<>>

InitPairing ==
    /\ pc = "call_get_paired_data"
    /\ dir \in Listings
    /\ video_ext \in {ExtMov, ExtMp4}
    /\ data_pairs = <<>>
    /\ k = 0 /\ idx = 0 /\ fpos = 0
    /\ calibration_json = <<>> /\ container = <<>> /\ video_rgb = <<>>
    /\ video_outdir = "" /\ before = NoFiles /\ fs = NoFiles /\ created = {} /\ log = <<>>
    /\ err = "" /\ frame = <<>> /\ written = <<>>

InitDecoding ==
    /\ pc = "call_load_video"
    /\ container \in LoneVideos
    /\ calibration_json \in {<<>>} \cup {<<r>> : r \in LoneRecords}
    /\ dir = {} /\ video_ext = ExtMov /\ data_pairs = <<>>
    /\ k = 0 /\ idx = 0 /\ fpos = 0
    /\ video_rgb = <<>>
    /\ video_outdir = "" /\ before = NoFiles /\ fs = NoFiles /\ created = {} /\ log = <<>>
    /\ err = "" /\ frame = <<>> /\ written = <<>>

InitTransform ==
    /\ pc = "call_transform"
    /\ frame \in Images
    /\ dir = {} /\ video_ext = ExtMov /\ data_pairs = <<>>
    /\ k = 0 /\ idx = 0 /\ fpos = 0
    /\ calibration_json = <<>> /\ container = <<>> /\ video_rgb = <<>>
    /\ video_outdir = "" /\ before = NoFiles /\ fs = NoFiles /\ created = {} /\ log = <<>>
    /\ err = "" /\ written = <<>>

Init == InitMain \/ InitPairing \/ InitDecoding \/ InitTransform

----------------------------------------------------------------------------
(* The functions called on their own *)

\* lines 39-48: a call of get_paired_data(root_dir, video_ext)
CallGetPairedData ==
    /\ pc = "call_get_paired_data"
    /\ data_pairs' \in get_paired_data(RootDir, dir, video_ext)
    /\ pc' = "paired"
    /\ UNCHANGED <<dir, video_ext, k, idx, fpos, calibration_json, container,
                   video_rgb, video_outdir, before, fs, created, log, err, frame, written>>

\* lines 16-37: a call of load_video(fp, calibration_data)
CallLoadVideo ==
    /\ pc = "call_load_video"
    /\ LET r == load_video(container, calibration_json)
       IN  /\ err' = IF r.status = "ok" THEN "" ELSE r.status
           /\ video_rgb' = IF r.status = "ok" THEN r.rgb ELSE <<>>
           /\ idx' = r.at
           /\ pc' = IF r.status = "ok" THEN "returned" ELSE "raised"
    /\ UNCHANGED <<dir, video_ext, data_pairs, k, fpos, calibration_json, container,
                   video_outdir, before, fs, created, log, frame, written>>

\* lines 70-71: the transform of one frame
CallTransform ==
    /\ pc = "call_transform"
    /\ written' = Transform(frame)
    /\ pc' = "transformed"
    /\ UNCHANGED <<dir, video_ext, data_pairs, k, idx, fpos, calibration_json,
                   container, video_rgb, video_outdir, before, fs, created, log, err, frame>>

----------------------------------------------------------------------------
(* main *)

calibration_fp == data_pairs[k][1]
video_fp == data_pairs[k][2]

ExistsAlways(fp) == TRUE

\* open(fp) and av.open(fp) find the file when the directory lists it
Exists(fp) == \E e \in dir : Join(RootDir, e) = fp

RaiseAndGoOn(e) ==
    /\ err' = e
    /\ pc' = "for_pairs"

\* an exception no code catches: the run ends
Raise(e) ==
    /\ err' = e
    /\ pc' = "failed"

FrameFolderOfIdx(outdir, i) == FolderName(i)

\* line 69: the folder of frame_path is video_outdir, set at line 60
FrameFolder(outdir, i) == outdir

\* os.makedirs(d, exist_ok=True) under outdir
MakeDirs(files, d) == IF d \in DOMAIN files THEN files ELSE files @@ (d :> NoFiles)

\* the file f of folder d is made or replaced
WriteFile(files, d, f, c) ==
    [files EXCEPT ![d] = [g \in DOMAIN files[d] \cup {f} |-> IF g = f THEN c ELSE files[d][g]]]

\* cv.imwrite(d/f): writes nothing, and raises nothing, when d is no folder
ImWrite(files, d, f, c) == IF d \in DOMAIN files THEN WriteFile(files, d, f, c) ELSE files

\* what the run did for the pair at hand
Event(op, d, f, c, n) ==
    [pair |-> k, op |-> op, folder |-> d, file |-> f, content |-> c, n |-> n]

\* lines 52-55
Start ==
    /\ pc = "main"
    /\ data_pairs' \in get_paired_data(RootDir, dir, ExtMov)
    /\ k' = 0
    /\ pc' = "for_pairs"
    /\ UNCHANGED <<dir, video_ext, idx, fpos, calibration_json, container, video_rgb,
                   video_outdir, before, fs, created, log, err, frame, written>>

\* line 56: the pair loop binds idx and the pair, or ends
NextPair ==
    /\ pc = "for_pairs"
    /\ IF k < Len(data_pairs)
       THEN /\ idx' = k
            /\ k' = k + 1
            /\ pc' = "load_json"
       ELSE /\ pc' = "done"
            /\ UNCHANGED <<idx, k>>
    /\ UNCHANGED <<dir, video_ext, data_pairs, fpos, calibration_json, container,
                   video_rgb, video_outdir, before, fs, created, log, err, frame,
                   written>>

\* line 57: load_json(calibration_fp)
LoadJson ==
    /\ pc = "load_json"
    /\ IF ~Exists(calibration_fp)
       THEN /\ Raise("FileNotFoundError")
            /\ UNCHANGED <<calibration_json, log>>
       ELSE \E text \in MainTexts :
                LET js == load_json(text)
                IN  IF js = <<>>
                    THEN /\ Raise("JSONDecodeError")
                         /\ UNCHANGED <<calibration_json, log>>
                    ELSE /\ calibration_json' = js
                         /\ log' = Append(log, Event("load_json", "", "", js, 0))
                         /\ pc' = "load_video"
                         /\ UNCHANGED err
    /\ UNCHANGED <<dir, video_ext, data_pairs, k, idx, fpos, container, video_rgb,
                   video_outdir, before, fs, created, frame, written>>

\* line 58: load_video(video_fp), without the calibration record
LoadVideo ==
    /\ pc = "load_video"
    /\ \/ /\ ~Exists(video_fp)
          /\ Raise("FileNotFoundError")
          /\ UNCHANGED <<container, video_rgb, log>>
       \/ /\ Exists(video_fp)
          /\ Raise("InvalidDataError")
          /\ UNCHANGED <<container, video_rgb, log>>
       \/ /\ Exists(video_fp)
          /\ \E video \in MainVideos :
                LET r == load_video(video, <<>>)
                IN  /\ container' = video
                    /\ video_rgb' = r.rgb
                    /\ log' = Append(log, Event("load_video", "", "", r.rgb, Len(video)))
                    /\ pc' = "makedirs"
                    /\ UNCHANGED err
    /\ UNCHANGED <<dir, video_ext, data_pairs, k, idx, fpos, calibration_json,
                   video_outdir, before, fs, created, frame, written>>

\* lines 60-61
MakeOutdir ==
    /\ pc = "makedirs"
    /\ video_outdir' = FolderName(idx)
    /\ fs' = MakeDirs(fs, FolderName(idx))
    /\ created' = created \cup {FolderName(idx)}
    /\ log' = Append(log, Event("makedirs", FolderName(idx), "", <<>>, 0))
    /\ pc' = "write_json"
    /\ UNCHANGED <<dir, video_ext, data_pairs, k, idx, fpos, calibration_json,
                   container, video_rgb, before, err, frame, written>>

\* lines 64-65, and line 68 when it starts the frame loop
WriteJson ==
    /\ pc = "write_json"
    /\ LET c == JsonFile(Dump(calibration_json[1]))
       IN  /\ fs' = WriteFile(fs, video_outdir, "calibration.json", c)
           /\ log' = Append(log, Event("write", video_outdir, "calibration.json", c, 0))
    /\ fpos' = 0
    /\ pc' = "for_frames"
    /\ UNCHANGED <<dir, video_ext, data_pairs, k, idx, calibration_json, container,
                   video_rgb, video_outdir, before, created, err, frame, written>>

\* lines 68-72: one turn of the frame loop, which binds idx again
WriteFrame ==
    /\ pc = "for_frames"
    /\ fpos < Len(video_rgb)
    /\ idx' = fpos
    /\ fpos' = fpos + 1
    /\ frame' = video_rgb[fpos + 1]
    /\ written' = Transform(video_rgb[fpos + 1])
    /\ LET d == FrameFolder(video_outdir, idx')
           c == PngFile(written')
       IN  /\ fs' = ImWrite(fs, d, FrameName(idx'), c)
           /\ log' = IF d \in DOMAIN fs
                     THEN Append(log, Event("write", d, FrameName(idx'), c, 0))
                     ELSE log
    /\ UNCHANGED <<dir, video_ext, data_pairs, k, pc, calibration_json, container,
                   video_rgb, video_outdir, before, created, err>>

\* line 68: the frame loop ends, back to line 56
FramesDone ==
    /\ pc = "for_frames"
    /\ fpos = Len(video_rgb)
    /\ pc' = "for_pairs"
    /\ UNCHANGED <<dir, video_ext, data_pairs, k, idx, fpos, calibration_json,
                   container, video_rgb, video_outdir, before, fs, created, log, err,
                   frame, written>>

Next ==
    \/ CallGetPairedData
    \/ CallLoadVideo
    \/ CallTransform
    \/ Start
    \/ NextPair
    \/ LoadJson
    \/ LoadVideo
    \/ MakeOutdir
    \/ WriteJson
    \/ WriteFrame
    \/ FramesDone

Spec == Init /\ [][Next]_vars

----------------------------------------------------------------------------
(* Vocabulary of the properties *)

InMain ==
    pc \in {"main", "for_pairs", "load_json", "load_video", "makedirs", "write_json",
            "for_frames", "done", "failed"}

\* get_paired_data has returned: on its own, or to main
Paired == pc = "paired" \/ (InMain /\ pc # "main")

\* load_video was called on its own and has ended
Decoded == pc \in {"returned", "raised"}

Listed(fp) == \E e \in dir : RootDir \o <<"/">> \o e = fp

Folder(i) == "video_" \o ToString(i)
Png(i) == ToString(i) \o ".png"
ExpectedFiles(n) == {"calibration.json"} \cup {Png(i) : i \in 0..(n - 1)}

EventsOf(p) == SelectSeq(log, LAMBDA e : e.pair = p)
WritesOf(p) == SelectSeq(log, LAMBDA e : e.pair = p /\ e.op = "write")

\* the deviation of the frame at position i from the record's entry at i
Deviation(video, rec, i) ==
    Abs((video[i].time + rec.sessionStartTime) - rec.frames[i].timestamp)

HasDeviatingFrame(video, rec) ==
    \E i \in 1..Len(video) : i <= Len(rec.frames) /\ Deviation(video, rec, i) > Tolerance

\* the base name of an entry when the marker is taken off the end of the
\* stem only
BaseNameSuffixOnly(entry) ==
    LET stem == Stem(entry)
    IN  IF EndsWith(stem, Marker)
        THEN SubSeq(stem, 1, Len(stem) - Len(Marker))
        ELSE stem

----------------------------------------------------------------------------
(* C1 *)

\* C1 as stated: when the directory holds exactly the calibration file of X
\* (X.json or X_calibration.json) and the video X.E, get_paired_data returns
\* the one pair (root/X.json, root/X.E), for every base name X: every name
\* that taking the marker off the end of a stem leaves, so X itself does not
\* end with the marker.
C1_OnePairForOneCapture ==
    pc = "paired" =>
        \A X \in {x \in Stems : ~EndsWith(x, Marker)} :
            \A cal \in {X \o Dot \o ExtJson, X \o Marker \o Dot \o ExtJson} :
                dir = {cal, X \o Dot \o video_ext} =>
                    data_pairs = << <<Join(RootDir, X \o Dot \o ExtJson),
                                      Join(RootDir, X \o Dot \o video_ext)>> >>

----------------------------------------------------------------------------
(* C8 *)

\* C8 as stated: the base name of an entry is its stem with the marker taken
\* off only where the stem ends with it, and get_paired_data returns exactly
\* one pair per distinct base name so derived.
C8_MarkerRemovedOnlyAsSuffix ==
    pc = "paired" =>
        LET names == {BaseNameSuffixOnly(e) : e \in dir}
        IN  /\ Len(data_pairs) = Cardinality(names)
            /\ {data_pairs[i] : i \in 1..Len(data_pairs)}
                 = {<<Join(RootDir, n \o Dot \o ExtJson),
                      Join(RootDir, n \o Dot \o video_ext)>> : n \in names}

----------------------------------------------------------------------------
(* C2 *)

\* C2 as stated: with the calibration record at hand, a frame that deviates
\* by more than the tolerance raises an error before any file of the pair is
\* written, in every run of the program over such a pair (and in every call
\* of load_video with the record).
C2_DeviationRaisesInEveryRun ==
    /\ (Decoded /\ calibration_json # <<>>
            /\ HasDeviatingFrame(container, calibration_json[1]))
        => pc = "raised"
    /\ (pc \in {"makedirs", "write_json", "for_frames"}
            /\ HasDeviatingFrame(container, calibration_json[1]))
        => FALSE
    /\ (pc \in {"for_pairs", "done"} /\ k >= 1
            /\ HasDeviatingFrame(container, calibration_json[1]))
        => WritesOf(k) = <<>>

\* C2 amended: load_video called with the calibration record raises when a
\* frame deviates by more than the tolerance, at that frame or before it, and
\* returns no frames, so nothing of the pair can be written from them; main
\* calls load_video without the record and checks no timestamp.
C2_DeviationRaisesInLoadVideo ==
    /\ (Decoded /\ calibration_json # <<>>
            /\ HasDeviatingFrame(container, calibration_json[1]))
        => /\ pc = "raised"
           /\ err \in {"AssertionError", "NameError", "IndexError"}
           /\ video_rgb = <<>>
           /\ fs = before /\ log = <<>>
           /\ \E i \in 1..Len(container) :
                /\ i <= Len(calibration_json[1].frames)
                /\ Deviation(container, calibration_json[1], i) > Tolerance
                /\ idx <= i - 1
    /\ (InMain /\ pc \in {"makedirs", "write_json", "for_frames"})
        => err = "" /\ Len(video_rgb) = Len(container)

C2_Witness ==
    /\ pc = "raised"
    /\ err = "AssertionError"
    /\ calibration_json # <<>>
    /\ HasDeviatingFrame(container, calibration_json[1])

----------------------------------------------------------------------------
(* C9 *)

\* C9 as stated: load_video called with a calibration record on a video of
\* at least one frame never returns; it fails at the first frame, on the
\* tolerance assertion or on the undefined name.
C9_FailsOnAssertOrUndefinedName ==
    (Decoded /\ calibration_json # <<>> /\ Len(container) >= 1)
        => /\ pc = "raised"
           /\ idx = 0
           /\ err \in {"AssertionError", "NameError"}

\* C9 amended: load_video called with a calibration record on a video of at
\* least one frame never returns; it fails at the first frame: on the lookup
\* of the record's first frame entry when the record has none, else on the
\* tolerance assertion when the first frame is off by the tolerance or more,
\* else on the undefined name.
C9_FailsAtFirstFrame ==
    (Decoded /\ calibration_json # <<>> /\ Len(container) >= 1)
        => LET rec == calibration_json[1]
           IN  /\ pc = "raised"
               /\ idx = 0
               /\ video_rgb = <<>>
               /\ err = IF rec.frames = <<>> THEN "IndexError"
                        ELSE IF Deviation(container, rec, 1) >= Tolerance
                             THEN "AssertionError"
                        ELSE "NameError"

C9_Witness ==
    /\ pc = "raised"
    /\ err = "NameError"
    /\ Len(container) = MaxFrames
    /\ Len(calibration_json[1].frames) = MaxFrames

----------------------------------------------------------------------------
(* C3 *)

\* main has processed pair k without error and is back at line 56
PairDone == pc = "for_pairs" /\ k >= 1

\* C3 as stated: after a pair of N frames is processed without error, its
\* folder video_<index> holds exactly 0.png to (N-1).png and calibration.json,
\* which deserializes to the record loaded, whatever the folder held before.
C3_ExactlyNFramesAndJson ==
    PairDone =>
        LET d == Folder(k - 1)
        IN  /\ d \in DOMAIN fs
            /\ DOMAIN fs[d] = ExpectedFiles(Len(container))
            /\ fs[d]["calibration.json"].type = "json"
            /\ load_json(fs[d]["calibration.json"].data) = calibration_json

\* C3 amended: after a pair of N frames is processed without error, its
\* folder video_<index> holds 0.png to (N-1).png and calibration.json as this
\* run wrote them, calibration.json deserializing to the record loaded; the
\* files of other names that the folder held before the run are still there,
\* unchanged, so the folder holds exactly these N + 1 files when it did not
\* exist or held no other file before the run.
C3_NFramesAndJsonBesideOldFiles ==
    PairDone =>
        LET d == Folder(k - 1)
            old == IF d \in DOMAIN before THEN DOMAIN before[d] ELSE {}
        IN  /\ d \in DOMAIN fs
            /\ DOMAIN fs[d] = ExpectedFiles(Len(container)) \cup old
            /\ fs[d]["calibration.json"].type = "json"
            /\ load_json(fs[d]["calibration.json"].data) = calibration_json
            /\ \A i \in 0..(Len(container) - 1) : fs[d][Png(i)].type = "png"
            /\ \A f \in old \ ExpectedFiles(Len(container)) : fs[d][f] = before[d][f]
            /\ old \subseteq ExpectedFiles(Len(container))
                   => DOMAIN fs[d] = ExpectedFiles(Len(container))

C3_Witness ==
    /\ PairDone
    /\ k = 2
    /\ Len(container) = 1
    /\ Len(calibration_json[1].frames) = MaxFrames
    /\ Folder(1) \in DOMAIN before
    /\ Png(1) \in DOMAIN fs[Folder(1)]

----------------------------------------------------------------------------
(* C4 *)

\* C4: load_video called without a calibration record on a video of N frames
\* returns exactly N frames, element i being the i-th frame decoded, and the
\* image written to <i>.png is the transform of element i.
C4_FramesInDecodeOrder ==
    /\ (Decoded /\ calibration_json = <<>>)
        => /\ pc = "returned"
           /\ video_rgb = [i \in 1..Len(container) |-> container[i].img]
    /\ pc \in {"makedirs", "write_json", "for_frames"}
        => video_rgb = [i \in 1..Len(container) |-> container[i].img]
    /\ pc = "for_frames"
        => \A i \in 0..(fpos - 1) :
              /\ Png(i) \in DOMAIN fs[video_outdir]
              /\ fs[video_outdir][Png(i)]
                   = [type |-> "png", data |-> Transform(container[i + 1].img)]

C4_Witness ==
    /\ pc = "for_frames"
    /\ fpos = MaxFrames
    /\ Len(container) = MaxFrames
    /\ k = 2

----------------------------------------------------------------------------
(* C5 *)

\* C5: the transform applied before writing (channels 1 and 3 exchanged, then
\* a rotation by 90 degrees clockwise) is invertible: rotating the written
\* image by 90 degrees counter-clockwise and exchanging the channels again
\* gives the decoded frame, and the written image has height and width
\* exchanged.
C5_TransformInvertible ==
    (pc = "transformed" \/ (pc = "for_frames" /\ fpos >= 1))
        => /\ Untransform(written) = frame
           /\ Height(written) = Width(frame)
           /\ Width(written) = Height(frame)

C5_Witness ==
    /\ pc = "transformed"
    /\ Height(frame) = 1
    /\ Width(frame) = MaxDim
    /\ frame[1][1] # frame[1][MaxDim]

----------------------------------------------------------------------------
(* C6 *)

\* the events of one pair, as far as they go, are: load the calibration,
\* decode the video, make the folder, write calibration.json, write the
\* frames 0.png, 1.png, ... in order
InOrder(evs) ==
    /\ Len(evs) >= 1 => evs[1].op = "load_json"
    /\ Len(evs) >= 2 => evs[2].op = "load_video"
    /\ Len(evs) >= 3 => evs[3].op = "makedirs"
    /\ Len(evs) >= 4 => evs[4].op = "write" /\ evs[4].file = "calibration.json"
    /\ \A i \in 5..Len(evs) : evs[i].op = "write" /\ evs[i].file = Png(i - 5)
    /\ Len(evs) >= 2 => Len(evs) <= 4 + evs[2].n

Complete(evs) == Len(evs) >= 2 /\ Len(evs) = 4 + evs[2].n

\* C6: the pairs are processed one after another, each as load calibration,
\* decode video, write calibration.json, write the frames; nothing of a later
\* pair happens before all outputs of the pair before it are written; when
\* the processing of pair k fails the run stops, the outputs of the pairs
\* before k stay as written, and no folder or file is made for a later pair.
C6_PairsOneAfterAnother ==
    InMain =>
        /\ \A i, j \in 1..Len(log) : i < j => log[i].pair <= log[j].pair
        /\ \A p \in 1..Len(data_pairs) :
              /\ InOrder(EventsOf(p))
              /\ p > k => EventsOf(p) = <<>>
              /\ (p < k \/ (p = k /\ pc \in {"for_pairs", "done"}))
                    => Complete(EventsOf(p))
        /\ \A i \in 1..Len(log) :
              log[i].op = "write" => fs[log[i].folder][log[i].file] = log[i].content
        /\ pc = "failed" =>
              /\ ~ENABLED Next
              /\ k >= 1 /\ err # ""
              /\ created = {Folder(p - 1) : p \in 1..(k - 1)}
              /\ DOMAIN fs = DOMAIN before \cup created
              /\ \A d \in DOMAIN fs \ created : fs[d] = before[d]
              /\ WritesOf(k) = <<>>
        /\ pc \in {"for_pairs", "done"} => err = ""

C6_Witness ==
    /\ pc = "failed"
    /\ k = 2
    /\ Len(data_pairs) = 2
    /\ Len(WritesOf(1)) = 1 + MaxFrames
    /\ Len(EventsOf(2)) = 1

----------------------------------------------------------------------------
(* C7 *)

----------------------------------------------------------------------------
(* C10 *)

\* C10: in a run over n pairs that all succeed, the folders made are exactly
\* video_0 to video_(n-1), one per pair, and every file of the k-th pair
\* (calibration.json and its frames, whatever their number) is written in
\* video_k and in no other folder, although the frame loop binds the index
\* variable of the pair loop.
C10_FilesOfPairInItsFolder ==
    InMain =>
        /\ \A i \in 1..Len(log) :
              log[i].op \in {"makedirs", "write"} =>
                  /\ log[i].folder = Folder(log[i].pair - 1)
                  /\ log[i].folder \in created
        /\ \A i \in 1..Len(log) :
              log[i].op = "write" => fs[log[i].folder][log[i].file] = log[i].content
        /\ pc = "done" =>
              /\ k = Len(data_pairs)
              /\ created = {Folder(i) : i \in 0..(Len(data_pairs) - 1)}
              /\ \A p \in 1..Len(data_pairs) :
                    LET n == EventsOf(p)[2].n
                    IN  /\ {WritesOf(p)[i].file : i \in 1..Len(WritesOf(p))}
                            = ExpectedFiles(n)
                        /\ Len(WritesOf(p)) = n + 1
                        /\ ExpectedFiles(n) \subseteq DOMAIN fs[Folder(p - 1)]

C10_Witness ==
    /\ pc = "done"
    /\ Len(data_pairs) = 2
    /\ EventsOf(1)[2].n = MaxFrames
    /\ EventsOf(2)[2].n = 0
    /\ before = NoFiles

====
